---- MODULE Spec2Model ----
(***************************************************************************)
(* Model of validate_m3u.py: the playlist parser (parse_m3u), the stream   *)
(* prober (is_stream_playable), the bounded concurrent runner and the      *)
(* playlist writer (validate_m3u_file).                                    *)
(*                                                                         *)
(* Text is modelled as sequences of one-character strings so that strip(), *)
(* startswith(), lower() and the substring test `in` are computed and not  *)
(* assumed.  A file is the sequence of raw lines readlines() returns.      *)
(***************************************************************************)
EXTENDS Integers, Sequences, FiniteSets, TLC

VARIABLES
    pc,             \* position of the main thread / of the function being run
    lines,          \* parse_m3u: the raw lines of the input file
    idx,            \* parse_m3u: index of the next line of the for loop
    entries,        \* parse_m3u / validate_m3u_file: the entries list
    current_entry,  \* parse_m3u: the pending entry (a dict)
    readable,       \* environment: the input file can be opened and read
    writable,       \* environment: the output file can be opened and written
    task,           \* per entry: state of its future in the executor
    result,         \* per entry: what future.result() gives
    probes,         \* per entry: number of times is_stream_playable started
    valid_entries,  \* validate_m3u_file: list of references to entries
    dead_entries,   \* validate_m3u_file: counter
    completed,      \* validate_m3u_file: counter
    output,         \* the output file (raw lines), <<>> while not written
    console,        \* messages printed so far
    head_resp,      \* prober: mocked outcome of requests.head
    get_resp,       \* prober: mocked outcome of requests.get
    r,              \* prober: the response variable r
    get_issued,     \* prober: requests.get was called
    verdict,        \* prober: the returned (playable, reason)
    total,          \* pool: number of entries of the run
    submitted,      \* pool: executor.submit calls made
    started,        \* pool: tasks taken from the work queue by a worker
    finished        \* pool: tasks whose probe returned

parseVars == <<lines, idx, entries, current_entry>>
runVars   == <<readable, writable, task, result, probes, valid_entries,
               dead_entries, completed, output, console>>
probeVars == <<head_resp, get_resp, r, get_issued, verdict>>
poolVars  == <<total, submitted, started, finished>>
vars      == <<pc, parseVars, runVars, probeVars, poolVars>>

----------------------------------------------------------------------------
(* Bounds of the model *)

MaxLines     == 4    \* longest input file of the parser specification
MaxBlocks    == 3    \* most playlist blocks in an input file of a run
PoolExtra    == 2    \* entries beyond the worker ceiling in the pool spec

(* Program constant, line 9 *)

MAX_WORKERS == 50

----------------------------------------------------------------------------
(* Python str and dict operations *)

Whitespace == {" ", "\t", "\n", "\r"}

RECURSIVE lstrip(_)
lstrip(s) ==
    IF s # <<>> /\ Head(s) \in Whitespace THEN lstrip(Tail(s)) ELSE s

RECURSIVE rstrip(_)
rstrip(s) ==
    IF s # <<>> /\ s[Len(s)] \in Whitespace
        THEN rstrip(SubSeq(s, 1, Len(s) - 1))
        ELSE s

strip(s) == rstrip(lstrip(s))

startswith(s, prefix) ==
    /\ Len(s) >= Len(prefix)
    /\ SubSeq(s, 1, Len(prefix)) = prefix

\* Python's `t in s` for strings
Contains(s, t) ==
    \E i \in 1..(Len(s) - Len(t) + 1) : SubSeq(s, i, i + Len(t) - 1) = t

UpperToLower ==
    "A" :> "a" @@ "B" :> "b" @@ "C" :> "c" @@ "D" :> "d" @@ "E" :> "e" @@
    "F" :> "f" @@ "G" :> "g" @@ "H" :> "h" @@ "I" :> "i" @@ "J" :> "j" @@
    "K" :> "k" @@ "L" :> "l" @@ "M" :> "m" @@ "N" :> "n" @@ "O" :> "o" @@
    "P" :> "p" @@ "Q" :> "q" @@ "R" :> "r" @@ "S" :> "s" @@ "T" :> "t" @@
    "U" :> "u" @@ "V" :> "v" @@ "W" :> "w" @@ "X" :> "x" @@ "Y" :> "y" @@
    "Z" :> "z"

lower(s) ==
    [i \in 1..Len(s) |->
        IF s[i] \in DOMAIN UpperToLower THEN UpperToLower[s[i]] ELSE s[i]]

EmptyDict == [k \in {} |-> <<>>]

DictSet(d, k, v) == (k :> v) @@ d

DictGet(d, k, default) == IF k \in DOMAIN d THEN d[k] ELSE default

NL == <<"\n">>

----------------------------------------------------------------------------
(* parse_m3u *)

EXTM3U == <<"#", "E", "X", "T", "M", "3", "U">>
EXTINF == <<"#", "E", "X", "T", "I", "N", "F">>
HASH   == <<"#">>

\* One iteration of `for line in lines`, on the pair (entries, current_entry)
ParseStepResetOnAppend(st, raw) ==
    LET line == strip(raw) IN
    IF line = <<>> THEN st
    ELSE IF startswith(line, EXTINF)
        THEN [st EXCEPT !.current_entry = DictSet(@, "extinf", line)]
    ELSE IF startswith(line, HASH) /\ ~startswith(line, EXTM3U)
        THEN [st EXCEPT !.current_entry =
                 DictSet(@, "tags", Append(DictGet(@, "tags", <<>>), line))]
    ELSE IF ~startswith(line, HASH)
        THEN LET e == DictSet(st.current_entry, "url", line) IN
             IF "extinf" \in DOMAIN e
                 THEN [entries |-> Append(st.entries, e),
                       current_entry |-> EmptyDict]
                 ELSE [entries |-> st.entries, current_entry |-> e]
    ELSE st

ParseStepTagsAfterExtinf(st, raw) ==
    LET line == strip(raw) IN
    IF line = <<>> THEN st
    ELSE IF startswith(line, EXTINF)
        THEN [st EXCEPT !.current_entry = "extinf" :> line]
    ELSE IF startswith(line, HASH) /\ ~startswith(line, EXTM3U)
        THEN [st EXCEPT !.current_entry =
                 DictSet(@, "tags", Append(DictGet(@, "tags", <<>>), line))]
    ELSE IF ~startswith(line, HASH)
        THEN LET e == DictSet(st.current_entry, "url", line) IN
             [entries |-> IF "extinf" \in DOMAIN e
                              THEN Append(st.entries, e)
                              ELSE st.entries,
              current_entry |-> EmptyDict]
    ELSE st

ParseStep(st, raw) ==
    LET line == strip(raw) IN
    IF line = <<>> THEN st
    ELSE IF startswith(line, EXTINF)
        THEN [st EXCEPT !.current_entry = DictSet(@, "extinf", line)]
    ELSE IF startswith(line, HASH) /\ ~startswith(line, EXTM3U)
        THEN [st EXCEPT !.current_entry =
                 DictSet(@, "tags", Append(DictGet(@, "tags", <<>>), line))]
    ELSE IF ~startswith(line, HASH)
        THEN LET e == DictSet(st.current_entry, "url", line) IN
             [entries |-> IF "extinf" \in DOMAIN e
                              THEN Append(st.entries, e)
                              ELSE st.entries,
              current_entry |-> EmptyDict]
    ELSE st

RECURSIVE ParseLoop(_, _)
ParseLoop(st, ls) ==
    IF ls = <<>> THEN st ELSE ParseLoop(ParseStep(st, Head(ls)), Tail(ls))

\* parse_m3u on a file that could be read
parse_m3u(ls) ==
    ParseLoop([entries |-> <<>>, current_entry |-> EmptyDict], ls).entries

----------------------------------------------------------------------------
(* The writer: lines 139-146 of validate_m3u_file *)

WriteEntryNoTags(e) ==
    <<e["extinf"] \o NL, e["url"] \o NL>>

WriteEntry(e) ==
    <<e["extinf"] \o NL>>
    \o (IF "tags" \in DOMAIN e
            THEN [i \in 1..Len(e["tags"]) |-> e["tags"][i] \o NL]
            ELSE <<>>)
    \o <<e["url"] \o NL>>

RECURSIVE WriteEntries(_)
WriteEntries(es) ==
    IF es = <<>> THEN <<>> ELSE WriteEntry(Head(es)) \o WriteEntries(Tail(es))

WriteLines(es) == <<EXTM3U \o NL>> \o WriteEntries(es)

----------------------------------------------------------------------------
(* Idle values of the variables a specification does not use *)

IdleParse ==
    /\ lines = <<>>
    /\ idx = 0
    /\ entries = <<>>
    /\ current_entry = EmptyDict

IdleRun ==
    /\ readable = TRUE
    /\ writable = TRUE
    /\ task = <<>>
    /\ result = <<>>
    /\ probes = <<>>
    /\ valid_entries = <<>>
    /\ dead_entries = 0
    /\ completed = 0
    /\ output = <<>>
    /\ console = <<>>

IdleProbe ==
    /\ head_resp = <<>>
    /\ get_resp = <<>>
    /\ r = <<>>
    /\ get_issued = FALSE
    /\ verdict = <<>>

IdlePool ==
    /\ total = 0
    /\ submitted = 0
    /\ started = 0
    /\ finished = 0

----------------------------------------------------------------------------
(* ParseSpec: parse_m3u run line by line over every short file, followed   *)
(* by the writer applied to everything that was parsed.                    *)

LineSet ==
    { EXTM3U \o NL,
      EXTINF \o <<":", "a", "\n">>,
      EXTINF \o <<":", "b", "\n">>,
      <<"#", "g", "\n">>,
      <<"#", "o", "\n">>,
      <<"u", "\n">>,
      <<" ", "v", "\n">>,
      <<" ", "\n">> }

Files(n) == UNION { [1..k -> LineSet] : k \in 0..n }

ParseInit ==
    /\ pc = "parse"
    /\ lines \in Files(MaxLines)
    /\ idx = 1
    /\ entries = <<>>
    /\ current_entry = EmptyDict
    /\ IdleRun /\ IdleProbe /\ IdlePool

\* body of the for loop, lines 67-83
ParseLine ==
    /\ pc = "parse"
    /\ idx <= Len(lines)
    /\ LET st == ParseStep([entries |-> entries,
                            current_entry |-> current_entry], lines[idx])
       IN /\ entries' = st.entries
          /\ current_entry' = st.current_entry
    /\ idx' = idx + 1
    /\ UNCHANGED <<pc, lines, runVars, probeVars, poolVars>>

\* line 89
ParseReturn ==
    /\ pc = "parse"
    /\ idx > Len(lines)
    /\ pc' = "parsed"
    /\ UNCHANGED <<parseVars, runVars, probeVars, poolVars>>

\* lines 139-146 applied to the parsed entries
WriteParsed ==
    /\ pc = "parsed"
    /\ output' = WriteLines(entries)
    /\ pc' = "written"
    /\ UNCHANGED <<parseVars, readable, writable, task, result, probes,
                   valid_entries, dead_entries, completed, console,
                   probeVars, poolVars>>

ParseNext == ParseLine \/ ParseReturn \/ WriteParsed

ParseSpec == ParseInit /\ [][ParseNext]_vars

----------------------------------------------------------------------------
(* Reading of the input independent of the parser's accumulator *)

Kind(raw) ==
    LET line == strip(raw) IN
    IF line = <<>> THEN "blank"
    ELSE IF startswith(line, EXTM3U) THEN "header"
    ELSE IF startswith(line, EXTINF) THEN "extinf"
    ELSE IF startswith(line, HASH) THEN "tag"
    ELSE "url"

Processed == idx - 1

UrlLines(n) == { j \in 1..n : Kind(lines[j]) = "url" }

Max(S) == CHOOSE x \in S : \A y \in S : y <= x
Min(S) == CHOOSE x \in S : \A y \in S : x <= y

\* index of the previous URL line, 0 if there is none
PrevUrl(j) == Max({0} \cup UrlLines(j - 1))

ExtinfsOf(j) == { i \in (PrevUrl(j) + 1)..(j - 1) : Kind(lines[i]) = "extinf" }

\* URL lines with an EXTINF line since the previous URL line
EntryLines(n) == { j \in UrlLines(n) : ExtinfsOf(j) # {} }

\* the URL line of the m-th entry
EntryLine(m, n) ==
    CHOOSE j \in EntryLines(n) : Cardinality({ k \in EntryLines(n) : k <= j }) = m

RECURSIVE TagsIn(_, _)
\* stripped directive lines among lines a..b, in input order
TagsIn(a, b) ==
    IF a > b THEN <<>>
    ELSE (IF Kind(lines[a]) = "tag" THEN <<strip(lines[a])>> ELSE <<>>)
         \o TagsIn(a + 1, b)

TagsOf(e) == DictGet(e, "tags", <<>>)

\* C5: the number of entries equals the number of URL lines with an EXTINF
\* line since the previous URL line, and the pending entry is empty after
\* every URL line.
ParseCountsUrlLinesWithExtinf ==
    /\ Len(entries) = Cardinality(EntryLines(Processed))
    /\ (Processed >= 1 /\ Kind(lines[Processed]) = "url")
           => current_entry = EmptyDict

LoneUrlDroppedEntryKept ==
    /\ pc = "parsed"
    /\ Len(entries) = 1
    /\ Cardinality(UrlLines(Len(lines))) = 2
    /\ current_entry = EmptyDict

\* C6 as stated: the tags of every entry are exactly the directive lines
\* between the entry's EXTINF line and its URL line; a directive before the
\* EXTINF line is not among them.
TagsOnlyAfterExtinf ==
    \A m \in 1..Len(entries) :
        LET j == EntryLine(m, Processed) IN
        TagsOf(entries[m]) = TagsIn(Min(ExtinfsOf(j)) + 1, j - 1)

\* C6 amended: the tags of every entry are exactly the directive lines
\* between the previous URL line (or the start of the file) and the entry's
\* URL line, in input order, whether they come before or after the EXTINF.
TagsSincePreviousUrl ==
    \A m \in 1..Len(entries) :
        LET j == EntryLine(m, Processed) IN
        /\ TagsOf(entries[m]) = TagsIn(PrevUrl(j) + 1, j - 1)
        /\ ("tags" \in DOMAIN entries[m]) <=> (TagsOf(entries[m]) # <<>>)

TagBeforeAndAfterExtinf ==
    /\ pc = "parsed"
    /\ Len(entries) = 1
    /\ Len(TagsOf(entries[1])) = 2
    /\ Kind(lines[1]) = "tag"
    /\ Kind(lines[2]) = "extinf"
    /\ TagsOf(entries[1])[1] # TagsOf(entries[1])[2]

\* C7: parsing the writer's output gives back the entries that were
\* written, and writing those again gives the same lines.
WriteParseRoundTrip ==
    pc = "written" =>
        /\ parse_m3u(output) = entries
        /\ WriteLines(parse_m3u(output)) = output

RoundTripOfTaggedEntry ==
    /\ pc = "written"
    /\ \E m \in 1..Len(entries) : "tags" \in DOMAIN entries[m]
    /\ output # lines
    /\ parse_m3u(output) = entries

----------------------------------------------------------------------------
(* is_stream_playable *)

AUDIO ==
    <<"a", "u", "d", "i", "o">>

OGG ==
    <<"o", "g", "g">>

VIDEO_MP2T ==
    <<"v", "i", "d", "e", "o", "/", "m", "p", "2", "t">>

OCTET_STREAM ==
    <<"a", "p", "p", "l", "i", "c", "a", "t", "i", "o", "n", "/", "o",
    "c", "t", "e", "t", "-", "s", "t", "r", "e", "a", "m">>

TEXT_HTML ==
    <<"t", "e", "x", "t", "/", "h", "t", "m", "l">>

\* valid_types, line 37
valid_types == {AUDIO, OGG, VIDEO_MP2T, OCTET_STREAM}

\* the outcome of requests.head / requests.get: a response or an exception
Response(status, headers) ==
    [kind |-> "response", status |-> status, headers |-> headers]

Raised(class) == [kind |-> class, status |-> 0, headers |-> EmptyDict]

\* requests.exceptions: ConnectTimeout derives from ConnectionError and Timeout
IsTimeout(class) == class \in {"Timeout", "ReadTimeout", "ConnectTimeout"}

IsConnectionError(class) == class \in {"ConnectionError", "ConnectTimeout"}

\* the text of str(e) for the mocked exception of another class
OtherMessage == "invalid url"

Verdict(playable, reason, code, ctype) ==
    [playable |-> playable, reason |-> reason, code |-> code, ctype |-> ctype]

\* the except clauses, lines 51-56
ExceptionVerdict(class) ==
    IF IsTimeout(class) THEN Verdict(FALSE, "Timeout", 0, <<>>)
    ELSE IF IsConnectionError(class) THEN Verdict(FALSE, "Connection Error", 0, <<>>)
    ELSE Verdict(FALSE, OtherMessage, 0, <<>>)

\* line 25
NeedsGetOnAnyError(status) == status >= 400

NeedsGet(status) == status = 405 \/ status = 404

\* lines 30-49, on the response held in r
Classify(resp) ==
    IF resp.status >= 400 THEN Verdict(FALSE, "Status", resp.status, <<>>)
    ELSE LET content_type == lower(DictGet(resp.headers, "Content-Type", <<>>))
             is_audio == \E t \in valid_types : Contains(content_type, t)
         IN IF ~is_audio
                THEN IF Contains(content_type, TEXT_HTML)
                         THEN Verdict(FALSE, "HTML Page (Not Audio)", 0, <<>>)
                         ELSE Verdict(FALSE, "Invalid Type", 0, content_type)
                ELSE Verdict(TRUE, "OK", 0, <<>>)

----------------------------------------------------------------------------
(* ProbeSpec: is_stream_playable against every pair of mocked responses *)

StatusCodes == {200, 399, 400, 404, 405, 500}

ContentTypes ==
    { <<"a", "u", "d", "i", "o", "/", "m", "p", "e", "g">>,
      <<"A", "u", "d", "i", "o", "/", "A", "A", "C">>,
      <<"a", "p", "p", "l", "i", "c", "a", "t", "i", "o", "n", "/", "o", "g", "g">>,
      <<"v", "i", "d", "e", "o", "/", "m", "p", "2", "t">>,
      <<"a", "p", "p", "l", "i", "c", "a", "t", "i", "o", "n", "/", "o", "c", "t", "e", "t", "-", "s", "t", "r", "e", "a", "m">>,
      <<"t", "e", "x", "t", "/", "h", "t", "m", "l", ";", " ", "c", "h", "a", "r", "s", "e", "t", "=", "U", "T", "F", "-", "8">>,
      <<"t", "e", "x", "t", "/", "p", "l", "a", "i", "n">>,
      <<"v", "i", "d", "e", "o", "/", "m", "p", "4">>,
      <<>> }

HeaderSets == {EmptyDict} \cup { "Content-Type" :> c : c \in ContentTypes }

Outcomes ==
    { Response(s, h) : s \in StatusCodes, h \in HeaderSets }
    \cup { Raised(c) : c \in {"ReadTimeout", "ConnectTimeout",
                              "ConnectionError", "InvalidURL"} }

ProbeInit ==
    /\ pc = "head"
    /\ head_resp \in Outcomes
    /\ get_resp \in Outcomes
    /\ r = <<>>
    /\ get_issued = FALSE
    /\ verdict = <<>>
    /\ IdleParse /\ IdleRun /\ IdlePool

\* lines 22-25
HeadRequest ==
    /\ pc = "head"
    /\ IF head_resp.kind # "response"
           THEN /\ verdict' = ExceptionVerdict(head_resp.kind)
                /\ pc' = "returned"
                /\ r' = r
           ELSE /\ r' = head_resp
                /\ pc' = IF NeedsGet(head_resp.status) THEN "get" ELSE "classify"
                /\ verdict' = verdict
    /\ UNCHANGED <<head_resp, get_resp, get_issued, parseVars, runVars, poolVars>>

\* lines 26-27
GetRequest ==
    /\ pc = "get"
    /\ get_issued' = TRUE
    /\ IF get_resp.kind # "response"
           THEN /\ verdict' = ExceptionVerdict(get_resp.kind)
                /\ pc' = "returned"
                /\ r' = r
           ELSE /\ r' = get_resp
                /\ pc' = "classify"
                /\ verdict' = verdict
    /\ UNCHANGED <<head_resp, get_resp, parseVars, runVars, poolVars>>

\* lines 30-49
ClassifyResponse ==
    /\ pc = "classify"
    /\ verdict' = Classify(r)
    /\ pc' = "returned"
    /\ UNCHANGED <<head_resp, get_resp, r, get_issued, parseVars, runVars, poolVars>>

ProbeNext == HeadRequest \/ GetRequest \/ ClassifyResponse

ProbeSpec == ProbeInit /\ [][ProbeNext]_vars

\* the decision procedure as the specification states it
Escalates == head_resp.kind = "response" /\ head_resp.status \in {404, 405}

FinalOutcome == IF Escalates THEN get_resp ELSE head_resp

DeclaredType == lower(DictGet(FinalOutcome.headers, "Content-Type", <<>>))

PlayableFamily ==
    \/ Contains(DeclaredType, AUDIO)
    \/ Contains(DeclaredType, OGG)
    \/ Contains(DeclaredType, VIDEO_MP2T)
    \/ Contains(DeclaredType, OCTET_STREAM)

ExpectedVerdict ==
    IF IsTimeout(head_resp.kind) \/ (Escalates /\ IsTimeout(get_resp.kind))
        THEN Verdict(FALSE, "Timeout", 0, <<>>)
    ELSE IF FinalOutcome.kind = "ConnectionError"
        THEN Verdict(FALSE, "Connection Error", 0, <<>>)
    ELSE IF FinalOutcome.kind # "response"
        THEN Verdict(FALSE, OtherMessage, 0, <<>>)
    ELSE IF FinalOutcome.status >= 400
        THEN Verdict(FALSE, "Status", FinalOutcome.status, <<>>)
    ELSE IF PlayableFamily THEN Verdict(TRUE, "OK", 0, <<>>)
    ELSE IF Contains(DeclaredType, TEXT_HTML)
        THEN Verdict(FALSE, "HTML Page (Not Audio)", 0, <<>>)
    ELSE Verdict(FALSE, "Invalid Type", 0, DeclaredType)

\* C8: the prober returns what the decision procedure prescribes for every
\* pair of header-probe and body-fetch outcomes, and issues the body fetch
\* exactly when the header probe answered 404 or 405.
ProberFollowsDecisionProcedure ==
    /\ get_issued => Escalates
    /\ pc = "returned" =>
           /\ verdict = ExpectedVerdict
           /\ get_issued <=> Escalates

EscalatedProbePlayable ==
    /\ pc = "returned"
    /\ head_resp.kind = "response" /\ head_resp.status = 404
    /\ get_issued
    /\ get_resp.kind = "response" /\ get_resp.status = 200
    /\ DictGet(get_resp.headers, "Content-Type", <<>>) = VIDEO_MP2T
    /\ verdict = Verdict(TRUE, "OK", 0, <<>>)

----------------------------------------------------------------------------
(* validate_m3u_file: the bounded concurrent runner and the writer *)

\* what future.result() does: return (is_valid, reason) or raise
Returned(is_valid, reason) ==
    [raised |-> FALSE, is_valid |-> is_valid, reason |-> reason]

RaisedResult == [raised |-> TRUE, is_valid |-> FALSE, reason |-> "exception"]

Pending == [raised |-> FALSE, is_valid |-> FALSE, reason |-> "pending"]

ProbeResults ==
    { Returned(TRUE, "OK"),
      Returned(FALSE, "Timeout"),
      Returned(FALSE, "HTML Page (Not Audio)"),
      RaisedResult }

\* ThreadPoolExecutor(max_workers=MAX_WORKERS), line 108: a queued task is
\* taken only by one of at most MAX_WORKERS worker threads
CanStartUnbounded(active) == TRUE

CanStart(active) == active < MAX_WORKERS

\* the try statement of the collection loop, lines 123-132, for entry i
HandleResultDropsRaised(i, res, valid, dead) ==
    IF res.raised
        THEN [valid_entries |-> valid, dead_entries |-> dead, aborted |-> FALSE]
    ELSE IF res.is_valid
        THEN [valid_entries |-> Append(valid, i), dead_entries |-> dead,
              aborted |-> FALSE]
    ELSE [valid_entries |-> valid, dead_entries |-> dead + 1, aborted |-> FALSE]

HandleResultKeepsAll(i, res, valid, dead) ==
    IF res.raised
        THEN [valid_entries |-> valid, dead_entries |-> dead + 1,
              aborted |-> FALSE]
    ELSE IF res.is_valid
        THEN [valid_entries |-> Append(valid, i), dead_entries |-> dead,
              aborted |-> FALSE]
    ELSE [valid_entries |-> Append(valid, i), dead_entries |-> dead + 1,
          aborted |-> FALSE]

HandleResultPropagates(i, res, valid, dead) ==
    IF res.raised
        THEN [valid_entries |-> valid, dead_entries |-> dead, aborted |-> TRUE]
    ELSE IF res.is_valid
        THEN [valid_entries |-> Append(valid, i), dead_entries |-> dead,
              aborted |-> FALSE]
    ELSE [valid_entries |-> valid, dead_entries |-> dead + 1, aborted |-> FALSE]

HandleResult(i, res, valid, dead) ==
    IF res.raised
        THEN [valid_entries |-> valid, dead_entries |-> dead + 1,
              aborted |-> FALSE]
    ELSE IF res.is_valid
        THEN [valid_entries |-> Append(valid, i), dead_entries |-> dead,
              aborted |-> FALSE]
    ELSE [valid_entries |-> valid, dead_entries |-> dead + 1, aborted |-> FALSE]

\* the entries valid_entries refers to, in the order of the list
Referenced(refs) == [k \in 1..Len(refs) |-> entries[refs[k]]]

\* the counts of the summary block, lines 150-152
Summary ==
    [total |-> Len(entries), valid |-> Len(valid_entries), dead |-> dead_entries]

Active == Cardinality({ i \in DOMAIN task : task[i] = "running" })

----------------------------------------------------------------------------
(* Spec: one invocation of validate_m3u_file *)

BlockA == << EXTINF \o <<":", "a", "\n">>, <<"u", "\n">> >>
BlockB == << EXTINF \o <<":", "b", "\n">>, <<"#", "g", "\n">>, <<"v", "\n">> >>

RECURSIVE Playlists(_)
\* the bodies of the playlists of at most n blocks
Playlists(n) ==
    IF n = 0 THEN { <<>> }
    ELSE Playlists(n - 1)
         \cup { p \o b : p \in Playlists(n - 1), b \in {BlockA, BlockB} }

RunFiles == { <<EXTM3U \o NL>> \o p : p \in Playlists(MaxBlocks) }

Init ==
    /\ pc = "start"
    /\ lines \in RunFiles
    /\ readable \in BOOLEAN
    /\ writable \in BOOLEAN
    /\ idx = 0
    /\ entries = <<>>
    /\ current_entry = EmptyDict
    /\ task = <<>>
    /\ result = <<>>
    /\ probes = <<>>
    /\ valid_entries = <<>>
    /\ dead_entries = 0
    /\ completed = 0
    /\ output = <<>>
    /\ console = <<>>
    /\ IdleProbe /\ IdlePool

\* lines 92-103, with parse_m3u (lines 58-89) and its except clause
ReadInput ==
    /\ pc = "start"
    /\ entries' = IF readable THEN parse_m3u(lines) ELSE <<>>
    /\ IF entries' = <<>>
           THEN /\ pc' = "returned"
                /\ console' = console \o <<"Reading">>
                       \o (IF readable THEN <<>> ELSE <<"Error reading file">>)
                       \o <<"No entries found or file error.">>
                /\ UNCHANGED <<task, result, probes>>
           ELSE /\ pc' = "submit"
                /\ console' = console \o <<"Reading", "Found">>
                /\ task' = [i \in 1..Len(entries') |-> "new"]
                /\ result' = [i \in 1..Len(entries') |-> Pending]
                /\ probes' = [i \in 1..Len(entries') |-> 0]
    /\ UNCHANGED <<lines, idx, current_entry, readable, writable,
                   valid_entries, dead_entries, completed, output,
                   probeVars, poolVars>>

\* one executor.submit of the dict comprehension, line 110
Submit ==
    /\ pc = "submit"
    /\ LET i == Min({ k \in DOMAIN task : task[k] = "new" }) IN
       /\ task' = [task EXCEPT ![i] = "queued"]
       /\ pc' = IF i = Len(entries) THEN "collect" ELSE "submit"
    /\ UNCHANGED <<parseVars, readable, writable, result, probes,
                   valid_entries, dead_entries, completed, output, console,
                   probeVars, poolVars>>

\* a worker thread takes the oldest queued task and calls is_stream_playable
StartProbe(i) ==
    /\ i \in DOMAIN task
    /\ task[i] = "queued"
    /\ i = Min({ k \in DOMAIN task : task[k] = "queued" })
    /\ CanStart(Active)
    /\ task' = [task EXCEPT ![i] = "running"]
    /\ probes' = [probes EXCEPT ![i] = @ + 1]
    /\ UNCHANGED <<pc, parseVars, readable, writable, result,
                   valid_entries, dead_entries, completed, output, console,
                   probeVars, poolVars>>

\* is_stream_playable returns or raises; the future becomes done
FinishProbe(i, res) ==
    /\ i \in DOMAIN task
    /\ task[i] = "running"
    /\ task' = [task EXCEPT ![i] = "done"]
    /\ result' = [result EXCEPT ![i] = res]
    /\ UNCHANGED <<pc, parseVars, readable, writable, probes,
                   valid_entries, dead_entries, completed, output, console,
                   probeVars, poolVars>>

\* one iteration of `for future in as_completed(...)`, lines 115-132
Collect(i) ==
    /\ pc = "collect"
    /\ i \in DOMAIN task
    /\ task[i] = "done"
    /\ task' = [task EXCEPT ![i] = "consumed"]
    /\ completed' = completed + 1
    /\ console' = IF completed' % 50 = 0
                      THEN console \o <<"Progress">> ELSE console
    /\ LET h == HandleResult(i, result[i], valid_entries, dead_entries) IN
       /\ valid_entries' = h.valid_entries
       /\ dead_entries' = h.dead_entries
       /\ pc' = IF h.aborted THEN "uncaught"
                ELSE IF completed' = Len(entries) THEN "write"
                ELSE "collect"
    /\ UNCHANGED <<parseVars, readable, writable, result, probes, output,
                   probeVars, poolVars>>

\* lines 136-154; open() and write() are not inside a try statement
WriteOutput ==
    /\ pc = "write"
    /\ IF writable
           THEN /\ output' = WriteLines(Referenced(valid_entries))
                /\ console' = console \o <<"Validation Complete", "Saved">>
                /\ pc' = "done"
           ELSE /\ pc' = "uncaught"
                /\ UNCHANGED <<output, console>>
    /\ UNCHANGED <<parseVars, readable, writable, task, result, probes,
                   valid_entries, dead_entries, completed,
                   probeVars, poolVars>>

Next ==
    \/ ReadInput
    \/ Submit
    \/ \E i \in 1..MaxBlocks : StartProbe(i)
    \/ \E i \in 1..MaxBlocks : \E res \in ProbeResults : FinishProbe(i, res)
    \/ \E i \in 1..MaxBlocks : Collect(i)
    \/ WriteOutput

Spec == Init /\ [][Next]_vars

\* worker threads run, every request ends by its timeout, and the main
\* thread is never blocked other than on the next completed future
FairSpec ==
    /\ Spec
    /\ WF_vars(Submit)
    /\ WF_vars(\E i \in 1..MaxBlocks : StartProbe(i))
    /\ WF_vars(\E i \in 1..MaxBlocks : \E res \in ProbeResults : FinishProbe(i, res))
    /\ WF_vars(\E i \in 1..MaxBlocks : Collect(i))

----------------------------------------------------------------------------
(* Properties of a run *)

Playable(i) == ~result[i].raised /\ result[i].is_valid

RECURSIVE Survivors(_)
\* the playable entries among the first n, in input order
Survivors(n) ==
    IF n = 0 THEN <<>>
    ELSE Survivors(n - 1) \o (IF Playable(n) THEN <<entries[n]>> ELSE <<>>)

Occurrences(seq, x) == Cardinality({ k \in 1..Len(seq) : seq[k] = x })

\* C1: the written playlist lists the surviving entries in the order of
\* the input, whatever the order in which the probes completed.
OutputInInputOrder ==
    pc = "done" => output = WriteLines(Survivors(Len(entries)))

\* C2: at the end of a run every parsed entry is counted once, as valid or
\* as dead, for every combination of probe outcomes.
EveryEntryCountedOnce ==
    /\ Len(valid_entries) + dead_entries = completed
    /\ \A i \in DOMAIN task : Occurrences(valid_entries, i) <= 1
    /\ pc \in {"write", "done", "uncaught"} =>
           Len(valid_entries) + dead_entries = Len(entries)

RunWithEveryOutcomeCounted ==
    /\ pc = "done"
    /\ Len(entries) = 3
    /\ \E i \in 1..3 : result[i].raised
    /\ \E i \in 1..3 : Playable(i)
    /\ \E i \in 1..3 : ~result[i].raised /\ ~result[i].is_valid
    /\ Len(valid_entries) + dead_entries = 3

\* C4: the written playlist holds an entry once for each of its input
\* occurrences whose probe returned playable, and nothing else; the summary
\* counts agree.
OutputIsExactlyThePlayable ==
    pc = "done" =>
        /\ \A i \in DOMAIN task :
               Occurrences(valid_entries, i) = IF Playable(i) THEN 1 ELSE 0
        /\ \A i \in DOMAIN task :
               Occurrences(parse_m3u(output), entries[i])
                   = Cardinality({ k \in DOMAIN task :
                                      entries[k] = entries[i] /\ Playable(k) })
        /\ Len(parse_m3u(output)) = Cardinality({ k \in DOMAIN task : Playable(k) })
        /\ Summary.valid = Cardinality({ k \in DOMAIN task : Playable(k) })
        /\ Summary.dead = Summary.total - Summary.valid

OkTimeoutHtmlScenario ==
    /\ pc = "done"
    /\ Len(entries) = 3
    /\ result[1] = Returned(TRUE, "OK")
    /\ result[2] = Returned(FALSE, "Timeout")
    /\ result[3] = Returned(FALSE, "HTML Page (Not Audio)")
    /\ output = WriteLines(<<entries[1]>>)
    /\ Summary = [total |-> 3, valid |-> 1, dead |-> 2]

\* C9: once the probes are dispatched the run reaches the write stage with
\* one result consumed per entry; a probe that fails or raises is counted
\* as dead and aborts nothing, and no entry is probed twice.
RunAlwaysCompletes ==
    /\ [](\A i \in DOMAIN probes : probes[i] <= 1)
    /\ [](pc = "collect" =>
              <>(/\ pc = "write"
                 /\ completed = Len(entries)
                 /\ \A i \in DOMAIN task : task[i] = "consumed" /\ probes[i] = 1
                 /\ dead_entries = Cardinality({ i \in DOMAIN task : ~Playable(i) })))

RaisedProbeCountedDead ==
    /\ pc = "write"
    /\ Len(entries) >= 2
    /\ result[1].raised
    /\ \E i \in DOMAIN task : Playable(i)
    /\ completed = Len(entries)
    /\ dead_entries >= 1

\* C10: a file I/O error on read or on write is reported on the console and
\* ends the invocation without an uncaught exception.
FileErrorsReportedNotRaised ==
    /\ (pc # "start" /\ ~readable) =>
           /\ entries = <<>>
           /\ pc = "returned"
           /\ \E k \in 1..Len(console) : console[k] = "Error reading file"
    /\ pc # "uncaught"

----------------------------------------------------------------------------
(* PoolSpec: the executor of line 108 with the real ceiling, by counts.    *)
(* The work queue is first-in first-out and the counters only grow, so    *)
(* the tasks queued at some moment have all started once the queue is      *)
(* empty again.                                                            *)

PoolInit ==
    /\ pc = "submit"
    /\ total \in 1..(MAX_WORKERS + PoolExtra)
    /\ submitted = 0
    /\ started = 0
    /\ finished = 0
    /\ IdleParse /\ IdleRun /\ IdleProbe

\* executor.submit, line 110
PoolSubmit ==
    /\ pc = "submit"
    /\ submitted' = submitted + 1
    /\ pc' = IF submitted' = total THEN "collect" ELSE "submit"
    /\ UNCHANGED <<total, started, finished, parseVars, runVars, probeVars>>

\* a worker thread takes the oldest queued task
PoolStart ==
    /\ started < submitted
    /\ CanStart(started - finished)
    /\ started' = started + 1
    /\ UNCHANGED <<pc, total, submitted, finished, parseVars, runVars, probeVars>>

\* is_stream_playable returns, the worker thread is free again
PoolFinish ==
    /\ finished < started
    /\ finished' = finished + 1
    /\ UNCHANGED <<pc, total, submitted, started, parseVars, runVars, probeVars>>

PoolNext == PoolSubmit \/ PoolStart \/ PoolFinish

PoolSpec ==
    /\ PoolInit /\ [][PoolNext]_vars
    /\ WF_vars(PoolSubmit) /\ WF_vars(PoolStart) /\ WF_vars(PoolFinish)

\* C3: never more than MAX_WORKERS probes are started and unfinished; a
\* task beyond the ceiling starts only after a worker is free, and every
\* queued task is eventually started.
WorkerCeilingAndProgress ==
    /\ [](started - finished <= MAX_WORKERS)
    /\ [][started' > started => started - finished < MAX_WORKERS]_vars
    /\ (submitted > started) ~> (started = submitted)

TasksWaitAtCeiling ==
    /\ started - finished = MAX_WORKERS
    /\ submitted > started

====
